---- MODULE Spec2Model ----
(***************************************************************************)
(* A model of the music bingo core: the card generator                     *)
(* (music_bingo/core/generator.py), the song-list parser                   *)
(* (music_bingo/core/parser.py) and the page loop of the PDF renderer       *)
(* (music_bingo/core/pdf.py).                                              *)
(*                                                                         *)
(* Strings are sequences of one-character strings, so that joining,        *)
(* splitting, stripping and case folding are computed, not assumed.        *)
(* An optional value (seed, URL, path) is <<>> for None and <<v>> for v.   *)
(***************************************************************************)
EXTENDS Integers, Sequences, FiniteSets, TLC

\* ------------------------------------------------------------------------
\* Bounds of the model
\* ------------------------------------------------------------------------

\* The grid size of a card.  The code's 25 (a 5 x 5 grid), scaled down.
CardSize == 2

\* The largest `count` argument tried.
MaxCount == 2

\* The largest `max_attempts_per_card` argument tried.
MaxAttempts == 2

\* Seeds tried are 0 .. MaxSeed, and None.
MaxSeed == 1

\* The most lines a text passed to the parser is made of.
MaxLines == 3

\* The most cards render_cards_pdf is given.
MaxPages == 2

\* The most words (or runs of spaces) a cell text is made of.
MaxWords == 3

\* ------------------------------------------------------------------------
\* Program constants
\* ------------------------------------------------------------------------

\* card_id = sig[:10]
IdLen == 10

\* ------------------------------------------------------------------------
\* Small helpers on sequences
\* ------------------------------------------------------------------------

None == <<>>

Some(v) == <<v>>

Range(s) == { s[i] : i \in DOMAIN s }

Nat0(n) == IF n > 0 THEN n ELSE 0

Take(s, n) == SubSeq(s, 1, IF n < Len(s) THEN n ELSE Len(s))

NL == "\n"

\* The decimal digit i as a character.
Digit(i) == <<"0", "1", "2", "3", "4", "5", "6", "7", "8", "9">>[i + 1]

\* "sep".join(parts)
RECURSIVE Join(_, _)
Join(parts, sep) ==
    IF Len(parts) = 0 THEN <<>>
    ELSE IF Len(parts) = 1 THEN parts[1]
    ELSE parts[1] \o sep \o Join(Tail(parts), sep)

\* ------------------------------------------------------------------------
\* State
\* ------------------------------------------------------------------------

\* generator.py
VARIABLES
    unique_artists,         \* argument: list of strings
    unique_titles,          \* argument: list of strings
    count,                  \* argument
    seed,                   \* argument: None or Some(integer)
    max_attempts_per_card,  \* argument
    gpc,                    \* "call" | "loop" | "done": position in generate_cards
    rng,                    \* the random source of this invocation
    seen,                   \* set of signatures accepted so far
    cards,                  \* list of cards accepted so far
    slot,                   \* completed iterations of the outer loop
    attempt,                \* completed iterations of the inner loop (this slot)
    ret,                    \* what the invocation gave its caller
    sampled,                \* history: sampling attempts made by this invocation
    dupRun,                 \* history: consecutive attempts in this slot whose
                            \* fingerprint is that of an already accepted card
    lastCand,               \* history: whether the last candidate repeated the
                            \* content of an accepted card, and whether it
                            \* was rejected
    prior                   \* history: outcome of the previous invocation with
                            \* the same arguments, if there was one

genArgs == <<unique_artists, unique_titles, count, seed, max_attempts_per_card>>

genLocals == <<gpc, rng, seen, cards, slot, attempt, ret, sampled, dupRun, lastCand>>

genVars == <<genArgs, genLocals, prior>>

\* parser.py
VARIABLES
    text,                      \* argument: the pasted text
    ppc,                       \* "call" | "loop" | "done"
    lines,                     \* lines _iter_nonempty_lines has yet to yield
    songs,                     \* list of <<artist, title>>
    seen_song_keys,            \* set of <<artist.casefold(), title.casefold()>>
    artist_casefold_to_value,  \* dict, as its list of <<key, value>> in insertion order
    title_casefold_to_value,   \* dict, as its list of <<key, value>> in insertion order
    ignored,                   \* list of lines
    result,                    \* the ParseResult returned
    hist                       \* history: per line yielded, the line and what
                               \* the iteration added to each collection

\* pdf.py
VARIABLES
    pcards,     \* argument: the list of cards
    opts,       \* argument: the RenderOptions
    rpc,        \* "call" | "header" | "artists" | "titles" | "footer" |
                \* "show" | "save" | "done": position in render_cards_pdf
    pageno,     \* i of `for i, card in enumerate(cards, start=1)`
    blk,        \* ix of the next draw_qr_block call of draw_footer
    ops,        \* canvas: what is drawn on the page not yet shown
    pages,      \* canvas: the pages shown, each the list of what it holds
    saves,      \* how often canvas.save() ran
    rret,       \* what render_cards_pdf gave its caller
    qr_calls,   \* history: the calls of make_qr_png_bytes, each with its
                \* argument, the card being drawn and whether it returned
    frames      \* history: the rectangles _draw_grid drew around its grids

pdfVars == <<pcards, opts, rpc, pageno, blk, ops, pages, saves, rret, qr_calls,
             frames>>

\* pdf.py, _draw_wrapped_text
VARIABLES
    cellText,     \* argument text
    cellW,        \* argument w
    cellH,        \* argument h
    wpc,          \* "call" | "shrink" | "truncate" | "draw" | "done"
    cellWords,    \* words
    cellSize,     \* size
    cellLines,    \* lines
    cellFont,     \* canvas: the size given to setFont, 0 before
    cellDrawn,    \* canvas: the strings given to drawCentredString, in order
    cellTried,    \* history: per call of wrap_lines, the size and the lines
    cellWrapped   \* history: lines as the shrinking loop left it

wrapVars == <<cellText, cellW, cellH, wpc, cellWords, cellSize, cellLines,
              cellFont, cellDrawn, cellTried, cellWrapped>>

parseVars == <<text, ppc, lines, songs, seen_song_keys, artist_casefold_to_value,
               title_casefold_to_value, ignored, result, hist>>

\* ------------------------------------------------------------------------
\* generator.py
\* ------------------------------------------------------------------------

\* hexdigest(): two hexadecimal digits per byte.  The digest is modelled as
\* the hexadecimal form of the hashed bytes themselves: sha256 without
\* collisions.
HexByte(c) ==
    CASE c = "a"  -> <<"6", "1">>
      [] c = "t"  -> <<"7", "4">>
      [] c = "0"  -> <<"3", "0">>
      [] c = "1"  -> <<"3", "1">>
      [] c = "2"  -> <<"3", "2">>
      [] c = "3"  -> <<"3", "3">>
      [] c = "4"  -> <<"3", "4">>
      [] c = "5"  -> <<"3", "5">>
      [] c = "-"  -> <<"2", "d">>
      [] c = NL   -> <<"0", "a">>
      [] OTHER    -> <<"3", "f">>

RECURSIVE Sha256Hex(_)
Sha256Hex(bytes) ==
    IF bytes = <<>> THEN <<>> ELSE HexByte(Head(bytes)) \o Sha256Hex(Tail(bytes))

\* _card_signature
CardSignature(artists, titles) ==
    LET joined == Join(artists, <<NL>>) \o <<NL, "-", "-", "-", NL>>
                      \o Join(titles, <<NL>>)
    IN  Sha256Hex(joined)

\* Card(artists=..., titles=..., card_id=sig[:10])
Card(artists, titles, sig) ==
    [artists |-> artists, titles |-> titles, card_id |-> Take(sig, IdLen)]

\* Mutant of Random: the seed is dropped, as in random.Random().
RandomIgnoringSeed(sd) == [mode |-> "os", s |-> 0]

\* random.Random(seed): a generator whose stream is fixed by the seed, or,
\* for seed None, seeded from the operating system (any stream).
Random(sd) ==
    IF sd = None THEN [mode |-> "os", s |-> 0]
    ELSE [mode |-> "seeded", s |-> sd[1] % 64]

\* One step of the seeded stream (a full-period congruential generator stands
\* for the Mersenne Twister).
RngAdvance(s) == (13 * s + 7) % 64

\* rng._randbelow(m) on stream state s
RandBelow(s, m) == (s \div 4) % m

\* random.Random.sample(population, k), the pool algorithm, with the k values
\* of _randbelow given:
\*   for i in range(k): j = randbelow(n - i); result[i] = pool[j];
\*                      pool[j] = pool[n - i - 1]
RECURSIVE SampleWith(_, _, _)
SampleWith(pool, k, js) ==
    IF k = 0 THEN <<>>
    ELSE LET n     == Len(pool)
             j     == js[1] + 1
             moved == [pool EXCEPT ![j] = pool[n]]
         IN  <<pool[j]>> \o SampleWith(SubSeq(moved, 1, n - 1), k - 1, Tail(js))

\* The values _randbelow can give in one call of sample(population of n, k).
ChoiceVectors(n, k) ==
    { js \in [1..k -> 0..(n - 1)] : \A i \in 1..k : js[i] < n - i + 1 }

\* The values _randbelow gives from stream state s.
RECURSIVE SeededVector(_, _, _)
SeededVector(s, n, k) ==
    IF k = 0 THEN <<>>
    ELSE <<RandBelow(s, n)>> \o SeededVector(RngAdvance(s), n - 1, k - 1)

RECURSIVE AdvanceBy(_, _)
AdvanceBy(s, k) == IF k = 0 THEN s ELSE AdvanceBy(RngAdvance(s), k - 1)

\* rng.sample(population, k=k): the possible <<value, generator after>>.
RngSample(r, population, k) ==
    IF r.mode = "seeded"
    THEN { [val |-> SampleWith(population, k, SeededVector(r.s, Len(population), k)),
            rng |-> [r EXCEPT !.s = AdvanceBy(r.s, k)]] }
    ELSE { [val |-> SampleWith(population, k, js), rng |-> r] :
              js \in ChoiceVectors(Len(population), k) }

\* Lines 41-44: the four draws of one attempt, in order, from the one source:
\*   artists = sample(unique_artists); titles = sample(unique_titles);
\*   artists = sample(list(artists));  titles = sample(list(titles))
\* A seeded source threads its state through the four calls.  The draws of an
\* OS-seeded source leave no state behind in the model, so there the outcomes
\* are every re-sampled artist sample paired with every re-sampled title
\* sample.
AttemptOutcomes(r, artists, titles) ==
    IF r.mode = "seeded"
    THEN LET d1 == CHOOSE d \in RngSample(r, artists, CardSize) : TRUE
             d2 == CHOOSE d \in RngSample(d1.rng, titles, CardSize) : TRUE
             d3 == CHOOSE d \in RngSample(d2.rng, d1.val, CardSize) : TRUE
             d4 == CHOOSE d \in RngSample(d3.rng, d2.val, CardSize) : TRUE
         IN  { [artists |-> d3.val, titles |-> d4.val, rng |-> d4.rng] }
    ELSE LET as == UNION { { d3.val : d3 \in RngSample(r, d1.val, CardSize) } :
                           d1 \in RngSample(r, artists, CardSize) }
             ts == UNION { { d4.val : d4 \in RngSample(r, d2.val, CardSize) } :
                           d2 \in RngSample(r, titles, CardSize) }
         IN  { [artists |-> a, titles |-> t, rng |-> r] : a \in as, t \in ts }

NoReturn == [kind |-> "none", cards |-> <<>>, what |-> "", got |-> 0]

ReturnCards(cs) == [kind |-> "ok", cards |-> cs, what |-> "", got |-> 0]

ValueError(what, got) ==
    [kind |-> "ValueError", cards |-> <<>>, what |-> what, got |-> got]

RuntimeError == [kind |-> "RuntimeError", cards |-> <<>>, what |-> "", got |-> 0]

\* Mutant of Validate: the size checks are off by one (<= for <).
ValidateOffByOne(artists, titles, n) ==
    IF Len(artists) <= CardSize THEN ValueError("artists", Len(artists))
    ELSE IF Len(titles) <= CardSize THEN ValueError("titles", Len(titles))
    ELSE IF n <= 0 THEN ValueError("count", 0)
    ELSE NoReturn

\* Lines 28-33: the precondition checks, in the code's order.
Validate(artists, titles, n) ==
    IF Len(artists) < CardSize THEN ValueError("artists", Len(artists))
    ELSE IF Len(titles) < CardSize THEN ValueError("titles", Len(titles))
    ELSE IF n <= 0 THEN ValueError("count", 0)
    ELSE NoReturn

\* Mutant of SeenAdd: the signature is not recorded.
SeenAddLost(s, sig) == s

\* seen.add(sig)
SeenAdd(s, sig) == s \cup {sig}

\* The accepted cards' contents, for the history variable lastCand.
AcceptedContents == { <<cards[i].artists, cards[i].titles>> : i \in DOMAIN cards }

\* The accepted cards' fingerprints, for the history variable dupRun.
AcceptedSignatures ==
    { CardSignature(cards[i].artists, cards[i].titles) : i \in DOMAIN cards }

NoCand == [repeat |-> FALSE, rejected |-> FALSE]

\* Mutant of InnerLoopRuns: the inner loop retries without a limit.
InnerLoopRunsForever == TRUE

\* Line 40: for _attempt in range(max_attempts_per_card) has an iteration left.
InnerLoopRuns == attempt < max_attempts_per_card

\* generate_cards, lines 28-37: checks, then rng / seen / cards are set up.
GenEnter ==
    /\ gpc = "call"
    /\ LET v == Validate(unique_artists, unique_titles, count)
       IN  IF v.kind = "ValueError"
           THEN /\ ret' = v
                /\ gpc' = "done"
                /\ UNCHANGED <<rng, seen, cards, slot, attempt>>
           ELSE /\ rng' = Random(seed)
                /\ seen' = {}
                /\ cards' = <<>>
                /\ slot' = 0
                /\ attempt' = 0
                /\ gpc' = "loop"
                /\ ret' = NoReturn
    /\ UNCHANGED <<genArgs, sampled, dupRun, lastCand, prior>>
    /\ UNCHANGED <<parseVars, pdfVars, wrapVars>>

\* Lines 39-51 and 57: one iteration of the inner loop.  A break that ends
\* the last iteration of the outer loop goes on to the return.
GenAttempt ==
    /\ gpc = "loop"
    /\ slot < count
    /\ InnerLoopRuns
    /\ \E o \in AttemptOutcomes(rng, unique_artists, unique_titles) :
         LET sig == CardSignature(o.artists, o.titles)
         IN  /\ rng' = o.rng
             /\ sampled' = sampled + 1
             /\ IF sig \in seen
                THEN /\ attempt' = attempt + 1
                     /\ UNCHANGED <<seen, cards, slot>>
                     /\ UNCHANGED <<gpc, ret>>
                ELSE /\ seen' = SeenAdd(seen, sig)
                     /\ cards' = Append(cards, Card(o.artists, o.titles, sig))
                     /\ slot' = slot + 1
                     /\ attempt' = 0
                     /\ IF slot + 1 < count
                        THEN UNCHANGED <<gpc, ret>>
                        ELSE /\ ret' = ReturnCards(cards')
                             /\ gpc' = "done"
             /\ dupRun' = IF sig \in AcceptedSignatures THEN dupRun + 1 ELSE 0
             /\ lastCand' = [repeat |-> <<o.artists, o.titles>> \in AcceptedContents,
                             rejected |-> sig \in seen]
    /\ UNCHANGED <<genArgs, prior>>
    /\ UNCHANGED <<parseVars, pdfVars, wrapVars>>

\* Mutant of GenExhausted: no for-else; the loops fall through to the return
\* with the cards accepted so far.
GenExhaustedReturnsPartial ==
    /\ gpc = "loop"
    /\ slot < count
    /\ ~InnerLoopRuns
    /\ ret' = ReturnCards(cards)
    /\ gpc' = "done"
    /\ UNCHANGED <<genArgs, rng, seen, cards, slot, attempt, sampled, dupRun,
                   lastCand, prior>>
    /\ UNCHANGED <<parseVars, pdfVars, wrapVars>>

\* Lines 52-55: the inner loop ran out without a break.
GenExhausted ==
    /\ gpc = "loop"
    /\ slot < count
    /\ ~InnerLoopRuns
    /\ ret' = RuntimeError
    /\ gpc' = "done"
    /\ UNCHANGED <<genArgs, rng, seen, cards, slot, attempt, sampled, dupRun,
                   lastCand, prior>>
    /\ UNCHANGED <<parseVars, pdfVars, wrapVars>>

NoPrior == [ret |-> NoReturn, rng |-> Random(None), sampled |-> 0, called |-> FALSE]

\* The caller invokes generate_cards a second time with the same arguments
\* and the same (non-null) seed.
GenCallAgain ==
    /\ gpc = "done"
    /\ ~prior.called
    /\ seed # None
    /\ prior' = [ret |-> ret, rng |-> rng, sampled |-> sampled, called |-> TRUE]
    /\ gpc' = "call"
    /\ rng' = Random(None)
    /\ seen' = {}
    /\ cards' = <<>>
    /\ slot' = 0
    /\ attempt' = 0
    /\ ret' = NoReturn
    /\ sampled' = 0
    /\ dupRun' = 0
    /\ lastCand' = NoCand
    /\ UNCHANGED genArgs
    /\ UNCHANGED <<parseVars, pdfVars, wrapVars>>

\* ------------------------------------------------------------------------
\* parser.py
\* ------------------------------------------------------------------------

\* \d{4} in _DECADE_HEADER_RE
DecadeDigits == 4

CR == "\r"

TAB == "\t"

EnDash == "{en dash}"

EmDash == "{em dash}"

\* \s
IsSpace(c) == c \in {" ", TAB, NL, CR}

\* \d
IsDigit(c) == c \in {"0", "1", "2", "3", "4", "5", "6", "7", "8", "9"}

\* [–—-]
IsDash(c) == c \in {EnDash, EmDash, "-"}

\* str.casefold(), character by character
FoldChar(c) ==
    CASE c = "A" -> "a"
      [] c = "B" -> "b"
      [] c = "W" -> "w"
      [] c = "X" -> "x"
      [] c = "Y" -> "y"
      [] OTHER   -> c

CaseFold(str) == [i \in DOMAIN str |-> FoldChar(str[i])]

\* str.splitlines(): breaks at \n, \r and \r\n; no empty last line.
RECURSIVE SplitLinesFrom(_, _, _)
SplitLinesFrom(str, i, cur) ==
    IF i > Len(str) THEN (IF cur = <<>> THEN <<>> ELSE <<cur>>)
    ELSE IF str[i] = CR /\ i < Len(str) /\ str[i + 1] = NL
         THEN <<cur>> \o SplitLinesFrom(str, i + 2, <<>>)
    ELSE IF str[i] \in {NL, CR}
         THEN <<cur>> \o SplitLinesFrom(str, i + 1, <<>>)
    ELSE SplitLinesFrom(str, i + 1, Append(cur, str[i]))

SplitLines(str) == SplitLinesFrom(str, 1, <<>>)

\* The first index >= i of str that holds no whitespace (Len + 1 if none):
\* where a greedy \s* or \s+ started at i stops.
RECURSIVE SkipSpace(_, _)
SkipSpace(str, i) ==
    IF i <= Len(str) /\ IsSpace(str[i]) THEN SkipSpace(str, i + 1) ELSE i

\* Where a greedy \d+ started at i stops.
RECURSIVE SkipDigits(_, _)
SkipDigits(str, i) ==
    IF i <= Len(str) /\ IsDigit(str[i]) THEN SkipDigits(str, i + 1) ELSE i

\* The last index <= i of str that holds no whitespace (0 if none).
RECURSIVE SkipSpaceBack(_, _)
SkipSpaceBack(str, i) ==
    IF i >= 1 /\ IsSpace(str[i]) THEN SkipSpaceBack(str, i - 1) ELSE i

\* str.strip()
Strip(str) == SubSeq(str, SkipSpace(str, 1), SkipSpaceBack(str, Len(str)))

\* _iter_nonempty_lines
IterNonemptyLines(str) ==
    LET raw      == SplitLines(str)
        stripped == [i \in DOMAIN raw |-> Strip(raw[i])]
    IN  SelectSeq(stripped, LAMBDA l : l # <<>>)

\* _DECADE_HEADER_RE.match(line):  ^\s*\d{4}s\s*\(\s*\d+\s*\)\s*$
DecadeHeaderMatch(line) ==
    LET d0 == SkipSpace(line, 1)
        sx == d0 + DecadeDigits
        p0 == SkipSpace(line, sx + 1)
        n0 == SkipSpace(line, p0 + 1)
        n1 == SkipDigits(line, n0)
        p1 == SkipSpace(line, n1)
    IN  /\ sx <= Len(line)
        /\ \A k \in d0..(sx - 1) : IsDigit(line[k])
        /\ line[sx] = "s"
        /\ p0 <= Len(line)
        /\ line[p0] = "("
        /\ n1 > n0
        /\ p1 <= Len(line)
        /\ line[p1] = ")"
        /\ SkipSpace(line, p1 + 1) = Len(line) + 1

\* Mutant of SplitMatchAt: any dash separates, with or without whitespace.
SplitMatchAtAnyDash(line, i) == IsDash(line[i])

\* Whether a match of \s+[–—-]\s+ starts at index i of line.
SplitMatchAt(line, i) ==
    LET d == SkipSpace(line, i)
    IN  /\ IsSpace(line[i])
        /\ d < Len(line)
        /\ IsDash(line[d])
        /\ IsSpace(line[d + 1])

\* Mutant of SplitOnce: the line is split at its last match.
SplitAtLast(line) ==
    LET starts == { i \in 1..Len(line) : SplitMatchAt(line, i) }
    IN  IF starts = {} THEN <<line>>
        ELSE LET i == CHOOSE m \in starts : \A n \in starts : m >= n
                 d == SkipSpace(line, i)
                 e == SkipSpace(line, d + 1)
             IN  <<SubSeq(line, 1, i - 1), SubSeq(line, e, Len(line))>>

\* _SPLIT_RE.split(line, maxsplit=1): the text before the leftmost match and
\* the text after it, or the line alone when there is no match.
SplitOnce(line) ==
    LET starts == { i \in 1..Len(line) : SplitMatchAt(line, i) }
    IN  IF starts = {} THEN <<line>>
        ELSE LET i == CHOOSE m \in starts : \A n \in starts : m <= n
                 d == SkipSpace(line, i)
                 e == SkipSpace(line, d + 1)
             IN  <<SubSeq(line, 1, i - 1), SubSeq(line, e, Len(line))>>

\* _WS_RE.sub(" ", str): every maximal run of whitespace becomes one space.
RECURSIVE CollapseFrom(_, _)
CollapseFrom(str, i) ==
    IF i > Len(str) THEN <<>>
    ELSE IF IsSpace(str[i]) THEN <<" ">> \o CollapseFrom(str, SkipSpace(str, i))
    ELSE <<str[i]>> \o CollapseFrom(str, i + 1)

\* _WS_RE.sub(" ", part).strip()
Normalise(part) == Strip(CollapseFrom(part, 1))

\* Mutant of SongKey: the key keeps the casing.
SongKeyExact(artist, title) == <<artist, title>>

\* song_key = (artist.casefold(), title.casefold())
SongKey(artist, title) == <<CaseFold(artist), CaseFold(title)>>

DictKeys(d) == { d[i][1] : i \in DOMAIN d }

\* Mutant of SetDefault: d[key] = value, which replaces the value of a key
\* already there.
SetAlways(d, key, value) ==
    IF key \in DictKeys(d)
    THEN [i \in DOMAIN d |-> IF d[i][1] = key THEN <<key, value>> ELSE d[i]]
    ELSE Append(d, <<key, value>>)

\* dict.setdefault(key, value)
SetDefault(d, key, value) ==
    IF key \in DictKeys(d) THEN d ELSE Append(d, <<key, value>>)

\* list(dict.values())
DictValues(d) == [i \in DOMAIN d |-> d[i][2]]

NoResult ==
    [returned |-> FALSE, songs |-> <<>>, unique_artists |-> <<>>,
     unique_titles |-> <<>>, ignored_lines |-> <<>>]

\* ParseResult(...)
ParseResult(sg, ua, ut, ig) ==
    [returned |-> TRUE, songs |-> sg, unique_artists |-> ua,
     unique_titles |-> ut, ignored_lines |-> ig]

\* What one iteration added, for the history.
HistEntry(line) ==
    [line    |-> line,
     songs   |-> Len(songs') - Len(songs),
     ignored |-> Len(ignored') - Len(ignored),
     artists |-> Len(artist_casefold_to_value') - Len(artist_casefold_to_value),
     titles  |-> Len(title_casefold_to_value') - Len(title_casefold_to_value)]

\* Lines 30-34: the collections are set up and the iteration begins.
ParseEnter ==
    /\ ppc = "call"
    /\ lines' = IterNonemptyLines(text)
    /\ songs' = <<>>
    /\ seen_song_keys' = {}
    /\ artist_casefold_to_value' = <<>>
    /\ title_casefold_to_value' = <<>>
    /\ ignored' = <<>>
    /\ ppc' = "loop"
    /\ UNCHANGED <<text, result, hist>>
    /\ UNCHANGED <<genVars, pdfVars, wrapVars>>

\* Lines 36-59: the loop body for the next line.
ParseLine ==
    /\ ppc = "loop"
    /\ lines # <<>>
    /\ LET line == Head(lines)
       IN  /\ lines' = Tail(lines)
           /\ IF DecadeHeaderMatch(line)
              THEN /\ ignored' = Append(ignored, line)
                   /\ UNCHANGED <<songs, seen_song_keys, artist_casefold_to_value,
                                  title_casefold_to_value>>
              ELSE LET parts == SplitOnce(line)
                   IN  IF Len(parts) # 2
                       THEN /\ ignored' = Append(ignored, line)
                            /\ UNCHANGED <<songs, seen_song_keys,
                                           artist_casefold_to_value,
                                           title_casefold_to_value>>
                       ELSE LET artist == Normalise(parts[1])
                                title  == Normalise(parts[2])
                            IN  IF artist = <<>> \/ title = <<>>
                                THEN /\ ignored' = Append(ignored, line)
                                     /\ UNCHANGED <<songs, seen_song_keys,
                                                    artist_casefold_to_value,
                                                    title_casefold_to_value>>
                                ELSE IF SongKey(artist, title) \in seen_song_keys
                                THEN UNCHANGED <<songs, seen_song_keys, ignored,
                                                 artist_casefold_to_value,
                                                 title_casefold_to_value>>
                                ELSE /\ seen_song_keys' =
                                          seen_song_keys \cup {SongKey(artist, title)}
                                     /\ songs' = Append(songs, <<artist, title>>)
                                     /\ artist_casefold_to_value' =
                                          SetDefault(artist_casefold_to_value,
                                                     CaseFold(artist), artist)
                                     /\ title_casefold_to_value' =
                                          SetDefault(title_casefold_to_value,
                                                     CaseFold(title), title)
                                     /\ UNCHANGED ignored
           /\ hist' = Append(hist, HistEntry(line))
    /\ UNCHANGED <<text, ppc, result>>
    /\ UNCHANGED <<genVars, pdfVars, wrapVars>>

\* Lines 61-69: the lines are used up; the result is built and returned.
ParseReturn ==
    /\ ppc = "loop"
    /\ lines = <<>>
    /\ result' = ParseResult(songs, DictValues(artist_casefold_to_value),
                             DictValues(title_casefold_to_value), ignored)
    /\ ppc' = "done"
    /\ UNCHANGED <<text, lines, songs, seen_song_keys, artist_casefold_to_value,
                   title_casefold_to_value, ignored, hist>>
    /\ UNCHANGED <<genVars, pdfVars, wrapVars>>

\* ------------------------------------------------------------------------
\* pdf.py: _draw_wrapped_text
\* ------------------------------------------------------------------------

\* Font sizes are counted in half points, the step of line 84: the 9 that
\* _draw_grid passes (line 140) is 18.
font_size == 18

\* min_font_size = 6, in half points
min_font_size == 12

\* size -= 0.5, in half points
ShrinkStep == 1

\* leading_ratio = 1.15: with heights counted in fortieths of a point, a line
\* of size s (in half points) is s * 23 high.
Leading == 23

Ellipsis == "{ellipsis}"

\* The advance width of a character in Helvetica, in thousandths of the font
\* size (the font's metrics file).
CharWidth(c) ==
    CASE c = " " -> 278
      [] c = "i" -> 222
      [] c = "a" -> 556
      [] c = "W" -> 944
      [] c = Ellipsis -> 1000
      [] OTHER -> 500

RECURSIVE UnitWidth(_)
UnitWidth(str) ==
    IF str = <<>> THEN 0 ELSE CharWidth(Head(str)) + UnitWidth(Tail(str))

\* canvas.stringWidth(str, font_name, size): the widths add up and scale with
\* the size.  Widths are counted in thousandths of half a point.
StringWidth(str, sz) == sz * UnitWidth(str)

\* text.split(): the maximal runs of characters that are not whitespace
RECURSIVE SplitWordsFrom(_, _, _)
SplitWordsFrom(str, i, cur) ==
    IF i > Len(str)
    THEN IF cur = <<>> THEN <<>> ELSE <<cur>>
    ELSE IF IsSpace(str[i])
         THEN IF cur = <<>> THEN SplitWordsFrom(str, i + 1, <<>>)
                            ELSE <<cur>> \o SplitWordsFrom(str, i + 1, <<>>)
         ELSE SplitWordsFrom(str, i + 1, Append(cur, str[i]))

SplitWords(str) == SplitWordsFrom(str, 1, <<>>)

\* Lines 70-71 and 94-95: while s and stringWidth(s + "…") > w: s = s[:-1]
RECURSIVE CutToFit(_, _, _)
CutToFit(str, sz, w) ==
    IF str # <<>> /\ StringWidth(Append(str, Ellipsis), sz) > w
    THEN CutToFit(SubSeq(str, 1, Len(str) - 1), sz, w)
    ELSE str

\* Mutant of CutWithEllipsis: the marker is left out.
CutUnmarked(str, sz, w) == CutToFit(str, sz, w)

\* Lines 69-72 and 93-96: (s + "…") if s else "…", s cut as above
CutWithEllipsis(str, sz, w) == Append(CutToFit(str, sz, w), Ellipsis)

\* wrap_lines(size), lines 59-76: the loop from word i on, with the lines and
\* the current line built so far.
RECURSIVE WrapFrom(_, _, _, _, _, _)
WrapFrom(ws, i, lns, current, sz, w) ==
    IF i > Len(ws)
    THEN IF current # <<>> THEN Append(lns, Join(current, <<" ">>)) ELSE lns
    ELSE LET word  == ws[i]
             trial == Strip(Join(Append(current, word), <<" ">>))
         IN  IF StringWidth(trial, sz) <= w
             THEN WrapFrom(ws, i + 1, lns, Append(current, word), sz, w)
             ELSE IF current # <<>>
                  THEN WrapFrom(ws, i + 1, Append(lns, Join(current, <<" ">>)),
                                <<word>>, sz, w)
                  ELSE WrapFrom(ws, i + 1, Append(lns, CutWithEllipsis(word, sz, w)),
                                <<>>, sz, w)

\* wrap_lines(size)
WrapLines(ws, sz, w) == WrapFrom(ws, 1, <<>>, <<>>, sz, w)

\* line_height = size * leading_ratio
LineHeight(sz) == sz * Leading

\* len(lines) * line_height <= h
BlockFits(lns, sz, h) == Len(lns) * LineHeight(sz) <= h

\* Mutant of ShrinkGoesOn: the loop runs once more at the floor.
ShrinkGoesOnAtFloor(sz) == sz >= min_font_size

\* Line 80: while size > min_font_size
ShrinkGoesOn(sz) == sz > min_font_size

\* Line 90: max(1, int(h // line_height))
MaxLinesFor(sz, h) ==
    LET q == h \div LineHeight(sz)
    IN  IF q > 1 THEN q ELSE 1

\* Lines 88-96: the lines kept, the last one marked, when the block is too
\* high; otherwise the lines as they are.
Truncate(lns, sz, w, h) ==
    IF BlockFits(lns, sz, h) THEN lns
    ELSE LET kept == Take(lns, MaxLinesFor(sz, h))
         IN  IF kept = <<>> THEN kept
             ELSE [kept EXCEPT ![Len(kept)] = CutWithEllipsis(kept[Len(kept)], sz, w)]

\* Lines 52-54 and 78-79: no words, nothing is drawn; otherwise the first
\* wrap at the starting size.
WrapEnter ==
    /\ wpc = "call"
    /\ cellWords' = SplitWords(cellText)
    /\ IF cellWords' = <<>>
       THEN /\ wpc' = "done"
            /\ UNCHANGED <<cellSize, cellLines, cellTried>>
       ELSE /\ cellSize' = font_size
            /\ cellLines' = WrapLines(cellWords', font_size, cellW)
            /\ cellTried' = <<[size |-> font_size, lines |-> cellLines']>>
            /\ wpc' = "shrink"
    /\ UNCHANGED <<cellText, cellW, cellH, cellFont, cellDrawn, cellWrapped>>
    /\ UNCHANGED <<genVars, parseVars, pdfVars>>

\* Lines 80-85: one test of the loop condition and, if it holds, one
\* iteration.
WrapShrink ==
    /\ wpc = "shrink"
    /\ IF ShrinkGoesOn(cellSize) /\ ~BlockFits(cellLines, cellSize, cellH)
       THEN /\ cellSize' = cellSize - ShrinkStep
            /\ cellLines' = WrapLines(cellWords, cellSize', cellW)
            /\ cellTried' = Append(cellTried, [size |-> cellSize', lines |-> cellLines'])
            /\ UNCHANGED <<wpc, cellWrapped>>
       ELSE /\ wpc' = "truncate"
            /\ cellWrapped' = cellLines
            /\ UNCHANGED <<cellSize, cellLines, cellTried>>
    /\ UNCHANGED <<cellText, cellW, cellH, cellWords, cellFont, cellDrawn>>
    /\ UNCHANGED <<genVars, parseVars, pdfVars>>

\* Lines 87-96
WrapTruncate ==
    /\ wpc = "truncate"
    /\ cellLines' = Truncate(cellLines, cellSize, cellW, cellH)
    /\ wpc' = "draw"
    /\ UNCHANGED <<cellText, cellW, cellH, cellWords, cellSize, cellFont, cellDrawn,
                   cellTried, cellWrapped>>
    /\ UNCHANGED <<genVars, parseVars, pdfVars>>

\* Lines 98-102: setFont, then one drawCentredString per line.
WrapDraw ==
    /\ wpc = "draw"
    /\ cellFont' = cellSize
    /\ cellDrawn' = cellLines
    /\ wpc' = "done"
    /\ UNCHANGED <<cellText, cellW, cellH, cellWords, cellSize, cellLines,
                   cellTried, cellWrapped>>
    /\ UNCHANGED <<genVars, parseVars, pdfVars>>

\* ------------------------------------------------------------------------
\* pdf.py: render_cards_pdf
\* ------------------------------------------------------------------------

\* One thing drawn on the canvas: what, with which strings, and during the
\* loop iteration of which card.
Op(kind, strs, n) == [op |-> kind, strs |-> strs, card |-> n]

MusicBingo == <<"M", "U", "S", "I", "C", " ", "B", "I", "N", "G", "O">>

Str_Artists == <<"A", "r", "t", "i", "s", "t", "s">>

Str_SongTitles == <<"S", "o", "n", "g", " ", "T", "i", "t", "l", "e", "s">>

Str_QrUnavailable ==
    <<"Q", "R", " ", "u", "n", "a", "v", "a", "i", "l", "a", "b", "l", "e">>

QrLabels ==
    << <<"E", "v", "e", "n", "t", " ", "Q", "R", " ", "1">>,
       <<"E", "v", "e", "n", "t", " ", "Q", "R", " ", "2">>,
       <<"M", "e", "n", "u">> >>

\* `if not url`: None and the empty string are both absent.
UrlAbsent(url) == url = None \/ url[1] = <<>>

\* f"{i:03d}"
RECURSIVE Decimal(_)
Decimal(n) == IF n < 10 THEN <<Digit(n)>> ELSE Decimal(n \div 10) \o <<Digit(n % 10)>>

ZeroPad3(n) ==
    LET d == Decimal(n)
    IN  IF Len(d) >= 3 THEN d ELSE [i \in 1..(3 - Len(d)) |-> "0"] \o d

\* f"Card {i:03d} • {card.card_id}"
CardCaption(n, card) ==
    <<"C", "a", "r", "d", " ">> \o ZeroPad3(n) \o <<" ", "{bullet}", " ">> \o card.card_id

\* Line 166: opts.logo_path and opts.logo_path.exists()
LogoFound(o) == o.logo \notin {"none", "missing"}

\* Lines 168-184, the body of the try (_load_logo_bw, ImageReader, drawImage):
\* "image" when all of it ran, "raise" when Image.open or a later call raised.
TryLogo(o) == IF o.logo = "valid" THEN "image" ELSE "raise"

\* Mutant of ExceptException: the try has no except clause.
ExceptNothing(outcome) == outcome

\* Lines 185-187: except Exception, the fallback title
ExceptException(outcome) == IF outcome = "raise" THEN "fallback" ELSE outcome

\* Lines 166-190: what stands at the top of the header, or "raise".
HeaderTitle(o) ==
    IF LogoFound(o) THEN ExceptException(TryLogo(o)) ELSE "fallback"

\* draw_logo_and_header, lines 162-193: the logo or the title text, then the
\* event date.
HeaderOps(o, n) ==
    << IF HeaderTitle(o) = "image" THEN Op("logo", <<>>, n)
                                   ELSE Op("text", <<MusicBingo>>, n),
       Op("text", <<o.event_date>>, n) >>

\* _draw_grid, lines 105-141: the title, the frame and items_list[:25], one
\* string per cell.
GridOps(items, title, n) ==
    << Op("text", <<title>>, n), Op("grid", Take(items, CardSize), n) >>

\* draw_qr_block up to the collaborator call, lines 200-212: the label, and
\* for an absent url the framed placeholder.
QrBlockOps(ix, url, n) ==
    IF UrlAbsent(url)
    THEN << Op("text", <<QrLabels[ix + 1]>>, n),
            Op("rect", <<>>, n),
            Op("text", <<Str_QrUnavailable>>, n) >>
    ELSE << Op("text", <<QrLabels[ix + 1]>>, n) >>

\* Line 214: one call make_qr_png_bytes(url), made while card n is drawn,
\* that returned the image bytes (made) or raised.
QrCall(url, n, made) == [url |-> url, card |-> n, made |-> made]

\* Mutant of ShowPage: the page is put in front of the pages shown so far.
ShowPageInFront(pgs, drawn) == <<drawn>> \o pgs

\* canvas.showPage(): what was drawn becomes the next page.
ShowPage(pgs, drawn) == Append(pgs, drawn)

PdfMagic == <<"%", "P", "D", "F", "-">>

\* The bytes of a saved document: the header, one page object per page, the
\* trailer.
DocumentBytes(pgs) == PdfMagic \o [i \in DOMAIN pgs |-> "/Page"] \o <<"%%EOF">>

NoBytes == [kind |-> "none", bytes |-> <<>>]

\* Lengths on the page are counted in quarters of a millimetre, in which
\* every length of lines 147-160 is a whole number.
mm == 4

\* reportlab.lib.pagesizes.A4 = (210*mm, 297*mm)
A4 == <<210 * mm, 297 * mm>>

page_w == A4[1]

page_h == A4[2]

margin_x == 14 * mm

margin_y == 12 * mm

gap == 6 * mm

header_h == 34 * mm

footer_h == 38 * mm

\* Mutant of Smaller: max instead of min
Larger(a, b) == IF a >= b THEN a ELSE b

\* min(a, b), line 156
Smaller(a, b) == IF a <= b THEN a ELSE b

\* Lines 155-156
square_size ==
    Smaller((page_h - 2 * margin_y - header_h - footer_h - gap) \div 2,
            page_w - 2 * margin_x)

\* Line 158
content_x == (page_w - square_size) \div 2

\* Line 159
top_grid_y == page_h - margin_y - header_h - square_size

\* Line 160
bottom_grid_y == top_grid_y - gap - square_size

\* canvas.rect(x, y, size, size) of _draw_grid, line 121, drawn for card n:
\* the lower left corner, the width and the height.
GridFrame(x, y, size, n) == [x |-> x, y |-> y, w |-> size, h |-> size, card |-> n]

\* Line 145-160: the canvas is made; the loop starts with the first card.
RenderEnter ==
    /\ rpc = "call"
    /\ ops' = <<>>
    /\ pages' = <<>>
    /\ pageno' = 1
    /\ blk' = 0
    /\ rpc' = IF pcards = <<>> THEN "save" ELSE "header"
    /\ qr_calls' = <<>>
    /\ frames' = <<>>
    /\ UNCHANGED <<pcards, opts, saves, rret>>
    /\ UNCHANGED <<genVars, parseVars, wrapVars>>

\* Line 223: draw_logo_and_header(); an exception it lets out ends the call.
RenderHeader ==
    /\ rpc = "header"
    /\ IF HeaderTitle(opts) = "raise"
       THEN /\ rret' = [kind |-> "raised", bytes |-> <<>>]
            /\ rpc' = "done"
            /\ UNCHANGED ops
       ELSE /\ ops' = ops \o HeaderOps(opts, pageno)
            /\ rpc' = "artists"
            /\ UNCHANGED rret
    /\ UNCHANGED <<pcards, opts, pageno, blk, pages, saves, qr_calls, frames>>
    /\ UNCHANGED <<genVars, parseVars, wrapVars>>

\* Line 225
RenderArtists ==
    /\ rpc = "artists"
    /\ ops' = ops \o GridOps(pcards[pageno].artists, Str_Artists, pageno)
    /\ frames' = Append(frames, GridFrame(content_x, top_grid_y, square_size, pageno))
    /\ rpc' = "titles"
    /\ UNCHANGED <<pcards, opts, pageno, blk, pages, saves, rret, qr_calls>>
    /\ UNCHANGED <<genVars, parseVars, wrapVars>>

\* Line 226
RenderTitles ==
    /\ rpc = "titles"
    /\ ops' = ops \o GridOps(pcards[pageno].titles, Str_SongTitles, pageno)
    /\ frames' = Append(frames, GridFrame(content_x, bottom_grid_y, square_size, pageno))
    /\ rpc' = "footer"
    /\ blk' = 0
    /\ UNCHANGED <<pcards, opts, pageno, pages, saves, rret, qr_calls>>
    /\ UNCHANGED <<genVars, parseVars, wrapVars>>

\* Lines 200-220: one draw_qr_block call of draw_footer.  make_qr_png_bytes
\* is outside this code: it gives an image or raises, and the exception is
\* not caught.
RenderQrBlock ==
    /\ rpc = "footer"
    /\ LET url == <<opts.qr_event_1, opts.qr_event_2, opts.qr_menu>>[blk + 1]
           nxt == IF blk < 2 THEN "footer" ELSE "show"
       IN  IF UrlAbsent(url)
           THEN /\ ops' = ops \o QrBlockOps(blk, url, pageno)
                /\ rpc' = nxt
                /\ blk' = blk + 1
                /\ UNCHANGED <<rret, qr_calls>>
           ELSE \E made \in BOOLEAN :
                  /\ qr_calls' = Append(qr_calls, QrCall(url[1], pageno, made))
                  /\ IF made
                     THEN /\ ops' = ops \o QrBlockOps(blk, url, pageno)
                                        \o <<Op("qr", <<url[1]>>, pageno)>>
                          /\ rpc' = nxt
                          /\ blk' = blk + 1
                          /\ UNCHANGED rret
                     ELSE /\ ops' = ops \o QrBlockOps(blk, url, pageno)
                          /\ rpc' = "done"
                          /\ rret' = [kind |-> "raised", bytes |-> <<>>]
                          /\ UNCHANGED blk
    /\ UNCHANGED <<pcards, opts, pageno, pages, saves, frames>>
    /\ UNCHANGED <<genVars, parseVars, wrapVars>>

\* Lines 230-234: the caption if asked for, then showPage; the loop goes on
\* with the next card or ends.
RenderShowPage ==
    /\ rpc = "show"
    /\ LET drawn == IF opts.show_card_id
                    THEN Append(ops, Op("text", <<CardCaption(pageno, pcards[pageno])>>,
                                        pageno))
                    ELSE ops
       IN  pages' = ShowPage(pages, drawn)
    /\ ops' = <<>>
    /\ IF pageno < Len(pcards)
       THEN pageno' = pageno + 1 /\ rpc' = "header"
       ELSE UNCHANGED pageno /\ rpc' = "save"
    /\ UNCHANGED <<pcards, opts, blk, saves, rret, qr_calls, frames>>
    /\ UNCHANGED <<genVars, parseVars, wrapVars>>

\* Lines 236-237: canvas.save() (which first shows a page still being drawn)
\* and the return of the buffer.
RenderSave ==
    /\ rpc = "save"
    /\ LET final == IF ops # <<>> THEN ShowPage(pages, ops) ELSE pages
       IN  /\ pages' = final
           /\ rret' = [kind |-> "ok", bytes |-> DocumentBytes(final)]
    /\ ops' = <<>>
    /\ saves' = saves + 1
    /\ rpc' = "done"
    /\ UNCHANGED <<pcards, opts, pageno, blk, qr_calls, frames>>
    /\ UNCHANGED <<genVars, parseVars, wrapVars>>

\* --- the arguments tried ---

\* [f"a{i}" for i in range(n)], as in the tests
Distinct(letter, n) == [i \in 1..n |-> <<letter, Digit(i - 1)>>]

\* ["a"] * n, as in the tests
Repeated(letter, n) == [i \in 1..n |-> <<letter>>]

\* n different strings, the second of which holds a line feed.
WithLineFeed(letter, n) ==
    << <<letter>>, <<letter, NL, letter>> >> \o Distinct(letter, n - 2)

Vocabularies ==
    { <<Distinct("a", 0), Repeated("t", CardSize + 1)>>,
      <<Repeated("a", CardSize + 1), Distinct("t", 0)>>,
      <<Distinct("a", CardSize - 1), Distinct("t", CardSize + 1)>>,
      <<Distinct("a", CardSize + 1), Distinct("t", CardSize - 1)>>,
      <<Distinct("a", CardSize - 1), Distinct("t", CardSize - 1)>>,
      <<Distinct("a", CardSize), Distinct("t", CardSize)>>,
      <<Distinct("a", CardSize + 1), Repeated("t", CardSize)>>,
      <<Repeated("a", CardSize), Distinct("t", CardSize + 1)>>,
      <<Repeated("a", CardSize), Repeated("t", CardSize)>>,
      <<WithLineFeed("a", CardSize), Repeated("t", CardSize)>> }

Seeds == {None} \cup { Some(n) : n \in 0..MaxSeed }

\* No parse is under way.
ParseIdle ==
    /\ text = <<>>
    /\ ppc = "idle"
    /\ lines = <<>>
    /\ songs = <<>>
    /\ seen_song_keys = {}
    /\ artist_casefold_to_value = <<>>
    /\ title_casefold_to_value = <<>>
    /\ ignored = <<>>
    /\ result = NoResult
    /\ hist = <<>>

\* No rendering is under way.
PdfIdle ==
    /\ pcards = <<>>
    /\ opts = [event_date |-> <<>>, logo |-> "none", qr_event_1 |-> None,
               qr_event_2 |-> None, qr_menu |-> Some(<<>>), show_card_id |-> FALSE]
    /\ rpc = "idle"
    /\ pageno = 0
    /\ blk = 0
    /\ ops = <<>>
    /\ pages = <<>>
    /\ saves = 0
    /\ rret = NoBytes
    /\ qr_calls = <<>>
    /\ frames = <<>>

\* No cell text is being drawn.
WrapIdle ==
    /\ cellText = <<>>
    /\ cellW = 0
    /\ cellH = 0
    /\ wpc = "idle"
    /\ cellWords = <<>>
    /\ cellSize = 0
    /\ cellLines = <<>>
    /\ cellFont = 0
    /\ cellDrawn = <<>>
    /\ cellTried = <<>>
    /\ cellWrapped = <<>>

\* No generation is under way.
GenIdle ==
    /\ unique_artists = <<>>
    /\ unique_titles = <<>>
    /\ count = 0
    /\ seed = None
    /\ max_attempts_per_card = 0
    /\ gpc = "idle"
    /\ rng = Random(None)
    /\ seen = {}
    /\ cards = <<>>
    /\ slot = 0
    /\ attempt = 0
    /\ ret = NoReturn
    /\ sampled = 0
    /\ dupRun = 0
    /\ lastCand = NoCand
    /\ prior = NoPrior

\* The raw lines texts are made of.
LinePool ==
    { <<"A", " ", "-", " ", "W">>,
      <<"a", " ", EnDash, " ", "w", CR>>,
      <<"A", " ", EmDash, " ", "X">>,
      <<"a", " ", "-", " ", "Y">>,
      <<"B", " ", " ", "-", TAB, "W", " ", " ", "b", " ", "-", " ", "X">>,
      <<" ", "1", "9", "5", "0", "s", " ", "(", "2", "5", ")", " ">>,
      <<"1", "9", "5", "0", "s", " ", "-", " ", "(", "2", "5", ")">>,
      <<"A", "-", "W">>,
      <<"A", "B">>,
      <<"-", " ", "W">>,
      <<" ", TAB>> }

Texts ==
    { Join(ls, <<NL>>) : ls \in UNION { [1..n -> LinePool] : n \in 0..MaxLines } }

ParseInit ==
    /\ text \in Texts
    /\ ppc = "call"
    /\ lines = <<>>
    /\ songs = <<>>
    /\ seen_song_keys = {}
    /\ artist_casefold_to_value = <<>>
    /\ title_casefold_to_value = <<>>
    /\ ignored = <<>>
    /\ result = NoResult
    /\ hist = <<>>
    /\ GenIdle
    /\ PdfIdle
    /\ WrapIdle

ParseNext ==
    \/ ParseEnter
    \/ ParseLine
    \/ ParseReturn

\* The cards render_cards_pdf is given: two cards with the same strings in
\* different orders.
CardPool ==
    LET a == Distinct("a", CardSize)
        t == Distinct("t", CardSize)
        b == [i \in 1..CardSize |-> a[CardSize + 1 - i]]
    IN  { Card(a, t, CardSignature(a, t)), Card(b, t, CardSignature(b, t)) }

Url(c) == Some(<<"h", ":", c>>)

\* RenderOptions: the logo path is given by what becomes of it ("none": no
\* path; "missing": no such file; "unreadable": the file cannot be opened;
\* "corrupt": the file is not an image that loads; "valid").
RenderOptionsTried ==
    [event_date : { <<"M", "a", "y">> },
     logo : {"none", "missing", "unreadable", "corrupt", "valid"},
     qr_event_1 : {None, Url("1")},
     qr_event_2 : {None, Some(<<>>), Url("2")},
     qr_menu : {Some(<<>>), Url("m")},
     show_card_id : BOOLEAN]

PdfInit ==
    /\ pcards \in UNION { [1..n -> CardPool] : n \in 1..MaxPages }
    /\ opts \in RenderOptionsTried
    /\ rpc = "call"
    /\ pageno = 0
    /\ blk = 0
    /\ ops = <<>>
    /\ pages = <<>>
    /\ saves = 0
    /\ rret = NoBytes
    /\ qr_calls = <<>>
    /\ frames = <<>>
    /\ GenIdle
    /\ ParseIdle
    /\ WrapIdle

PdfNext ==
    \/ RenderEnter
    \/ RenderHeader
    \/ RenderArtists
    \/ RenderTitles
    \/ RenderQrBlock
    \/ RenderShowPage
    \/ RenderSave

\* The pieces cell texts are made of; the empty piece gives leading,
\* trailing and repeated spaces.
WordPool ==
    { <<>>, <<"i">>, <<"a", "a">>, <<"a", "a", "a", "a">>, <<"W", "i">> }

CellTexts ==
    { Join(ps, <<" ">>) : ps \in UNION { [1..n -> WordPool] : n \in 0..MaxWords } }

\* _draw_grid, lines 132-139, gives every cell the same w and h, with room
\* for seven lines at the smallest size and for several characters next to
\* an ellipsis.  The cells tried are smaller ones that still hold a line at
\* the smallest size and an ellipsis at the starting size.
CellWidths == { 18000, 24000, 40000 }

CellHeights == { 300, 690, 2000 }

WrapInit ==
    /\ cellText \in CellTexts
    /\ cellW \in CellWidths
    /\ cellH \in CellHeights
    /\ wpc = "call"
    /\ cellWords = <<>>
    /\ cellSize = 0
    /\ cellLines = <<>>
    /\ cellFont = 0
    /\ cellDrawn = <<>>
    /\ cellTried = <<>>
    /\ cellWrapped = <<>>
    /\ GenIdle
    /\ ParseIdle
    /\ PdfIdle

WrapNext ==
    \/ WrapEnter
    \/ WrapShrink
    \/ WrapTruncate
    \/ WrapDraw

GenInit ==
    /\ \E v \in Vocabularies : unique_artists = v[1] /\ unique_titles = v[2]
    /\ count \in -1..MaxCount
    /\ seed \in Seeds
    /\ max_attempts_per_card \in -1..MaxAttempts
    /\ gpc = "call"
    /\ rng = Random(None)
    /\ seen = {}
    /\ cards = <<>>
    /\ slot = 0
    /\ attempt = 0
    /\ ret = NoReturn
    /\ sampled = 0
    /\ dupRun = 0
    /\ lastCand = NoCand
    /\ prior = NoPrior
    /\ ParseIdle
    /\ PdfIdle
    /\ WrapIdle

GenNext ==
    \/ GenEnter
    \/ GenAttempt
    \/ GenExhausted
    \/ GenCallAgain

vars == <<genVars, parseVars, pdfVars, wrapVars>>

\* ------------------------------------------------------------------------
\* Properties of generate_cards
\* ------------------------------------------------------------------------

GenReturned == gpc = "done" /\ ret.kind = "ok"

GenArgsValid ==
    /\ Len(unique_artists) >= CardSize
    /\ Len(unique_titles) >= CardSize
    /\ count > 0

Content(card) == <<card.artists, card.titles>>

\* C1: a call that returns gives exactly `count` cards, and no two cards at
\* different positions have the same ordered (artists, titles) content.
C1_CountAndDistinct ==
    GenReturned =>
        /\ Len(ret.cards) = count
        /\ \A i, j \in DOMAIN ret.cards :
              i # j => Content(ret.cards[i]) # Content(ret.cards[j])

\* C1 witness: two cards were returned after some sample had to be rejected.
C1_Witness ==
    /\ GenReturned
    /\ count >= 2
    /\ sampled > count
    /\ Len(ret.cards) = count

\* C2: every returned card has CardSize pairwise distinct artists taken from
\* the artist list and CardSize pairwise distinct titles taken from the title
\* list, also when the lists passed in hold repeated strings.
C2_CardsWellFormed ==
    GenReturned =>
        \A i \in DOMAIN ret.cards :
            /\ Len(ret.cards[i].artists) = CardSize
            /\ Len(ret.cards[i].titles) = CardSize
            /\ Cardinality(Range(ret.cards[i].artists)) = CardSize
            /\ Cardinality(Range(ret.cards[i].titles)) = CardSize
            /\ Range(ret.cards[i].artists) \subseteq Range(unique_artists)
            /\ Range(ret.cards[i].titles) \subseteq Range(unique_titles)

\* C3: a second invocation with the same arguments and the same non-null
\* seed ends as the first did: the same error or the same cards (artists,
\* titles and card_id, position by position), after the same number of draws
\* and with the random source in the same state.
C3_Deterministic ==
    (gpc = "done" /\ prior.called) =>
        /\ ret = prior.ret
        /\ sampled = prior.sampled
        /\ rng = prior.rng

\* C3 witness: both seeded invocations have returned two cards.
C3_Witness ==
    /\ gpc = "done"
    /\ prior.called
    /\ seed # None
    /\ ret.kind = "ok"
    /\ Len(ret.cards) >= 2
    /\ prior.ret.kind = "ok"

\* C4: the call fails with ValueError exactly when the artist list is short,
\* or the title list is short, or count <= 0; the error names the short
\* vocabulary and its size, artists before titles before count; and nothing
\* was sampled and no card was made.
C4_InvalidInput ==
    gpc = "done" =>
        /\ ret.kind = "ValueError" <=> ~GenArgsValid
        /\ ret.kind = "ValueError" =>
              /\ sampled = 0
              /\ cards = <<>>
              /\ ret.cards = <<>>
              /\ IF Len(unique_artists) < CardSize
                 THEN ret.what = "artists" /\ ret.got = Len(unique_artists)
                 ELSE IF Len(unique_titles) < CardSize
                 THEN ret.what = "titles" /\ ret.got = Len(unique_titles)
                 ELSE ret.what = "count"

\* C4 witness: the artists pass and the titles are reported short.
C4_Witness ==
    /\ gpc = "done"
    /\ ret.kind = "ValueError"
    /\ Len(unique_artists) >= CardSize
    /\ ret.what = "titles"
    /\ ret.got = Len(unique_titles)
    /\ ret.got > 0

\* The contents a card can have, for each pair of lists long enough to be
\* sampled.
AchievableFrom ==
    [ v \in { p \in Vocabularies : Len(p[1]) >= CardSize /\ Len(p[2]) >= CardSize } |->
        { <<o.artists, o.titles>> : o \in AttemptOutcomes(Random(None), v[1], v[2]) } ]

\* The contents a card for these arguments can have.
Achievable == AchievableFrom[<<unique_artists, unique_titles>>]

\* C5: the call fails with RuntimeError exactly when some slot saw
\* max_attempts_per_card consecutive samples that each had the fingerprint of
\* an accepted card (a budget below zero counts as zero).  Then no card list is
\* returned, and a count above the number of achievable cards always ends
\* so.
C5_Exhaustion ==
    /\ [](/\ (gpc = "done" /\ ret.kind = "RuntimeError") =>
               /\ GenArgsValid
               /\ dupRun = Nat0(max_attempts_per_card)
               /\ ret.cards = <<>>
          /\ (gpc = "done" /\ GenArgsValid /\ count > Cardinality(Achievable)) =>
               ret.kind = "RuntimeError")
    /\ [][(gpc = "loop" /\ dupRun >= Nat0(max_attempts_per_card)) =>
             (gpc' = "done" /\ ret'.kind = "RuntimeError" /\ ret'.cards = <<>>)]_vars

\* C5 witness: the second slot was given up after a full budget of repeats,
\* with one card already accepted.
C5_Witness ==
    /\ gpc = "done"
    /\ ret.kind = "RuntimeError"
    /\ max_attempts_per_card >= 2
    /\ dupRun = max_attempts_per_card
    /\ Len(cards) = 1
    /\ count > Cardinality(Achievable)

\* C6: every invocation ends, and at no point has it made more than
\* count * max_attempts_per_card sampling attempts (a count or a budget below
\* zero counts as zero); the attempts of a slot start from zero and never
\* pass the budget.
C6_Terminates ==
    /\ [](/\ sampled <= Nat0(count) * Nat0(max_attempts_per_card)
          /\ attempt <= Nat0(max_attempts_per_card)
          /\ sampled <= slot * Nat0(max_attempts_per_card) + attempt)
    /\ (gpc # "done") ~> (gpc = "done")

\* C6 witness: a call ended after the second slot used its whole budget.
C6_Witness ==
    /\ gpc = "done"
    /\ count >= 2
    /\ max_attempts_per_card >= 2
    /\ attempt = max_attempts_per_card
    /\ sampled = 1 + max_attempts_per_card


\* C13: a candidate is rejected exactly when a card with the same ordered
\* artists and the same ordered titles was accepted before in the run (so a
\* candidate that differs from every accepted card, be it only in the order
\* of its items, never has the fingerprint of one); the fingerprints seen
\* are those of the accepted cards; each card_id is the first ten characters
\* of the card's own fingerprint.
C13_RejectedIffRepeated ==
    /\ lastCand.rejected <=> lastCand.repeat
    /\ gpc \in {"loop", "done"} => seen = AcceptedSignatures
    /\ \A i \in DOMAIN cards :
          cards[i].card_id
              = Take(CardSignature(cards[i].artists, cards[i].titles), IdLen)

\* ------------------------------------------------------------------------
\* Properties of parse_song_list_text
\* ------------------------------------------------------------------------

ParseReturned == ppc = "done" /\ result.returned

\* The elements of sq at the indices in idx, in the order of sq.
Pick(sq, idx) ==
    [k \in 1..Cardinality(idx) |->
        sq[CHOOSE i \in idx : Cardinality({ j \in idx : j <= i }) = k]]

\* The positions of line that hold a dash with whitespace on both sides.
Separators(line) ==
    { q \in 2..(Len(line) - 1) :
        IsDash(line[q]) /\ IsSpace(line[q - 1]) /\ IsSpace(line[q + 1]) }

FirstSeparator(line) ==
    CHOOSE q \in Separators(line) : \A r \in Separators(line) : q <= r

HasText(str) == \E i \in DOMAIN str : ~IsSpace(str[i])

\* The line splits into two non-empty parts at its first separator.
SplitsInTwo(line) ==
    /\ Separators(line) # {}
    /\ HasText(SubSeq(line, 1, FirstSeparator(line) - 1))
    /\ HasText(SubSeq(line, FirstSeparator(line) + 1, Len(line)))

\* The line is one the parser has to set aside.
Unparsable(line) == DecadeHeaderMatch(line) \/ ~SplitsInTwo(line)

\* The <<artist, title>> a parsable line stands for.
PairOf(line) ==
    <<Normalise(SubSeq(line, 1, FirstSeparator(line) - 1)),
      Normalise(SubSeq(line, FirstSeparator(line) + 1, Len(line)))>>

FoldPair(pair) == <<CaseFold(pair[1]), CaseFold(pair[2])>>

HistLines == [i \in DOMAIN hist |-> hist[i].line]

\* The pairs of the parsable lines read so far, in input order.
ParsedPairs ==
    LET good == SelectSeq(HistLines, LAMBDA l : ~Unparsable(l))
    IN  [i \in DOMAIN good |-> PairOf(good[i])]

C8_SongsDeduplicated ==
    ParseReturned =>
        /\ \A i, j \in DOMAIN result.songs :
              i # j => FoldPair(result.songs[i]) # FoldPair(result.songs[j])
        /\ result.songs =
              Pick(ParsedPairs,
                   { i \in DOMAIN ParsedPairs :
                       \A j \in 1..(i - 1) :
                           FoldPair(ParsedPairs[j]) # FoldPair(ParsedPairs[i]) })

\* C8 witness: of three parsed lines the second or third repeated an earlier
\* song in another casing, and two songs were kept.
C8_Witness ==
    /\ ParseReturned
    /\ Len(ParsedPairs) = 3
    /\ Len(result.songs) = 2
    /\ \E i, j \in DOMAIN ParsedPairs :
          /\ i < j
          /\ ParsedPairs[i] # ParsedPairs[j]
          /\ FoldPair(ParsedPairs[i]) = FoldPair(ParsedPairs[j])

SongArtists == [i \in DOMAIN result.songs |-> result.songs[i][1]]

SongTitles == [i \in DOMAIN result.songs |-> result.songs[i][2]]

\* The first occurrences of the strings of sq, in order.
FirstSeen(sq) ==
    Pick(sq, { i \in DOMAIN sq : \A j \in 1..(i - 1) : sq[j] # sq[i] })

\* The first occurrences of the strings of sq up to case, in order.
FirstSeenFolded(sq) ==
    Pick(sq, { i \in DOMAIN sq : \A j \in 1..(i - 1) : CaseFold(sq[j]) # CaseFold(sq[i]) })

\* C9 as stated: unique_artists (unique_titles) holds every artist (title)
\* string of songs exactly once, at the place of its first appearance, and
\* nothing else.
C9_DistinctStrings ==
    ParseReturned =>
        /\ result.unique_artists = FirstSeen(SongArtists)
        /\ result.unique_titles = FirstSeen(SongTitles)

\* C9 as amended: unique_artists (unique_titles) holds the artist (title)
\* strings of songs that differ up to case, each once, in the casing and at
\* the place of its first appearance, and nothing else.
C9_DistinctUpToCase ==
    ParseReturned =>
        /\ result.unique_artists = FirstSeenFolded(SongArtists)
        /\ result.unique_titles = FirstSeenFolded(SongTitles)

\* C9 witness: two songs whose artists differ in case only were parsed, and
\* unique_artists holds the first casing alone.
C9_Witness ==
    /\ ParseReturned
    /\ Len(result.songs) = 2
    /\ SongArtists[1] # SongArtists[2]
    /\ CaseFold(SongArtists[1]) = CaseFold(SongArtists[2])
    /\ result.unique_artists = <<SongArtists[1]>>
    /\ Len(result.unique_titles) = 2

\* str with its whitespace normalised: the words, one space between them.
Words(str) == Join(SplitWords(str), <<" ">>)

\* str is not empty, neither begins nor ends with whitespace and has no two
\* whitespace characters in a row.
Tidy(str) ==
    /\ str # <<>>
    /\ ~IsSpace(str[1])
    /\ ~IsSpace(str[Len(str)])
    /\ \A k \in 1..(Len(str) - 1) : ~(IsSpace(str[k]) /\ IsSpace(str[k + 1]))

RenderDrawing == rpc \in {"header", "artists", "titles", "footer", "show"}

RenderReturned == rpc = "done" /\ rret.kind = "ok"

IsHeaderOp(o) == o.op = "logo" \/ (o.op = "text" /\ o.strs = <<MusicBingo>>)

IsFooterOp(o) ==
    \/ o.op \in {"rect", "qr"}
    \/ o.op = "text" /\ o.strs[1] \in (Range(QrLabels) \cup {Str_QrUnavailable})

\* Page p holds what belongs to card n and nothing else: the header first,
\* then the artists grid, then the titles grid, then the footer.
PageOfCard(p, n) ==
    /\ \A k \in DOMAIN p : p[k].card = n
    /\ \E a, t, f \in DOMAIN p :
          /\ 1 < a /\ a < t /\ t < f
          /\ IsHeaderOp(p[1])
          /\ p[a - 1] = Op("text", <<Str_Artists>>, n)
          /\ p[a] = Op("grid", Take(pcards[n].artists, CardSize), n)
          /\ p[t - 1] = Op("text", <<Str_SongTitles>>, n)
          /\ p[t] = Op("grid", Take(pcards[n].titles, CardSize), n)
          /\ { k \in DOMAIN p : p[k].op = "grid" } = {a, t}
          /\ \A k \in DOMAIN p : IsHeaderOp(p[k]) => k < a
          /\ p[f] = Op("text", <<QrLabels[1]>>, n)
          /\ \A k \in DOMAIN p : IsFooterOp(p[k]) => k >= f
          /\ \A i \in DOMAIN QrLabels :
                Cardinality({ k \in DOMAIN p : p[k] = Op("text", <<QrLabels[i]>>, n) }) = 1

\* C10: the pages shown are, in order, the pages of the first cards of the
\* list, each complete (header, artists grid, titles grid, footer) before it
\* is shown and shown before anything of the next card is drawn; the document
\* is saved once, after the last page; a call that returns gives one page per
\* card and bytes that start with the PDF magic header.
C10_OnePagePerCard ==
    /\ \A n \in DOMAIN pages : n <= Len(pcards) /\ PageOfCard(pages[n], n)
    /\ RenderDrawing =>
          /\ Len(pages) = pageno - 1
          /\ \A k \in DOMAIN ops : ops[k].card = pageno
    /\ rpc # "done" => saves = 0
    /\ RenderReturned =>
          /\ saves = 1
          /\ ops = <<>>
          /\ Len(pages) = Len(pcards)
          /\ Take(rret.bytes, Len(PdfMagic)) = PdfMagic
          /\ Cardinality({ k \in DOMAIN rret.bytes : rret.bytes[k] = "/Page" })
                = Len(pcards)

\* C10 witness: two different cards were rendered with a logo, all three
\* codes and the caption, and the call returned.
C10_Witness ==
    /\ RenderReturned
    /\ Len(pcards) = 2
    /\ pcards[1] # pcards[2]
    /\ opts.logo = "valid"
    /\ ~UrlAbsent(opts.qr_event_1)
    /\ ~UrlAbsent(opts.qr_event_2)
    /\ opts.show_card_id
    /\ Len(pages) = 2

\* The pages shown and, when something is drawn on it, the page under way.
PagesBegun == IF ops = <<>> THEN pages ELSE Append(pages, ops)

\* C12: whatever the logo path is (none, no such file, a file that cannot be
\* opened, a file that is no image, a good image), every page begins with the
\* logo or, unless the image loaded, with the text MUSIC BINGO, followed by
\* the event date; the title stands on a page once; and a call that raised
\* had drawn the whole header of the page it was on.
C12_HeaderNeverFails ==
    /\ \A n \in DOMAIN PagesBegun :
          LET p == PagesBegun[n]
          IN  /\ Len(p) >= 2
              /\ p[1] = IF opts.logo = "valid" THEN Op("logo", <<>>, n)
                                              ELSE Op("text", <<MusicBingo>>, n)
              /\ p[2] = Op("text", <<opts.event_date>>, n)
              /\ Cardinality({ k \in DOMAIN p : IsHeaderOp(p[k]) }) = 1
    /\ (rpc = "done" /\ rret.kind = "raised") =>
          /\ Len(PagesBegun) = pageno
          /\ Len(ops) >= 2
    /\ rpc \in {"artists", "titles", "footer", "show"} => Len(PagesBegun) = pageno

\* C12 witness: a call with a logo file that is no image returned two pages.
C12_Witness ==
    /\ RenderReturned
    /\ opts.logo = "corrupt"
    /\ Len(pages) = 2
    /\ pages[2][1] = Op("text", <<MusicBingo>>, 2)

\* The footer of a page: the labels, code images, placeholder frames and
\* placeholder captions on it, in the order drawn.
FooterOf(page) == SelectSeq(page, IsFooterOp)

\* A URL is present when it is given and not the empty string.
Present(url) == url # None /\ url[1] # <<>>

\* The three URLs in footer order, and those of them that are present.
FooterUrls == <<opts.qr_event_1, opts.qr_event_2, opts.qr_menu>>

PresentUrls == SelectSeq(FooterUrls, Present)

\* The block of URL number k on page n as the claim has it: the label with
\* a code image of the URL, for an optional URL that is absent the label with
\* the framed placeholder.  The third block, of the required URL, always has
\* the code image.
BlockClaimed(k, n) ==
    IF k = 3 \/ Present(FooterUrls[k])
    THEN << Op("text", <<QrLabels[k]>>, n), Op("qr", <<FooterUrls[k][1]>>, n) >>
    ELSE << Op("text", <<QrLabels[k]>>, n), Op("rect", <<>>, n),
            Op("text", <<Str_QrUnavailable>>, n) >>

\* The calls of the collaborator made while card n was drawn
CallsFor(n) == SelectSeq(qr_calls, LAMBDA c : c.card = n)

\* C17: every page shown has the three footer blocks in the order event URL
\* 1, event URL 2, menu URL; for the page the collaborator was called once
\* for each present URL, in that order, and for no other; an absent optional
\* URL has the framed placeholder with the caption "QR unavailable"; the
\* block of the required URL has a code image; and a call of the collaborator
\* that raises is the last thing the function does: it gives no bytes to its
\* caller, who gets the exception.
C17_FooterBlocks ==
    /\ \A n \in DOMAIN pages :
          /\ FooterOf(pages[n]) = BlockClaimed(1, n) \o BlockClaimed(2, n) \o BlockClaimed(3, n)
          /\ CallsFor(n) = [k \in DOMAIN PresentUrls |-> QrCall(PresentUrls[k][1], n, TRUE)]
    /\ \A i \in DOMAIN qr_calls :
          ~qr_calls[i].made =>
              /\ i = Len(qr_calls)
              /\ rpc = "done"
              /\ rret = [kind |-> "raised", bytes |-> <<>>]
              /\ saves = 0
    /\ rpc = "done" /\ rret.kind = "raised" =>
          qr_calls # <<>> /\ ~qr_calls[Len(qr_calls)].made

\* What is left of the page height between the bands, for the two grids
\* together, and the width between the horizontal margins.
HeightForGrids == page_h - 2 * margin_y - header_h - footer_h - gap

WidthForGrids == page_w - 2 * margin_x

\* C18: on the A4 page with the margins of 14 and 12 mm, the header of 34 mm,
\* the footer of 38 mm and the gap of 6 mm, every grid frame drawn is a
\* square, all of one side, inside the horizontal and the vertical margins;
\* the side is the smaller of half the height left for the grids and the
\* width between the margins; of the two frames of a card the first lies
\* below the header band, the second above the footer band, and the second
\* ends exactly the gap below the first, so they do not overlap.
C18_GridsInsideBands ==
    /\ \A k \in DOMAIN frames :
          LET f == frames[k]
          IN  /\ f.w = f.h
              /\ f.w > 0
              /\ f.w = frames[1].w
              /\ IF HeightForGrids <= 2 * WidthForGrids
                 THEN 2 * f.w = HeightForGrids
                 ELSE f.w = WidthForGrids
              /\ f.x >= margin_x
              /\ f.x + f.w <= page_w - margin_x
              /\ f.y >= margin_y
              /\ f.y + f.h <= page_h - margin_y
              /\ f.card = (k + 1) \div 2
    /\ \A k \in DOMAIN frames :
          IF k % 2 = 1
          THEN frames[k].y + frames[k].h <= page_h - margin_y - header_h
          ELSE LET top    == frames[k - 1]
                   bottom == frames[k]
               IN  /\ bottom.y >= margin_y + footer_h
                   /\ top.y - (bottom.y + bottom.h) = gap
                   /\ bottom.y + bottom.h <= top.y
                   /\ bottom.x = top.x

\* C18 witness: two pages were rendered, with the two grids of each, and the
\* side of the squares is 97.5 mm, half of the height left for them.
C18_Witness ==
    /\ RenderReturned
    /\ Len(pages) = 2
    /\ Len(frames) = 4
    /\ 2 * frames[4].w = 195 * mm
    /\ frames[4].w < WidthForGrids
    /\ frames[3].y > frames[4].y

\* ------------------------------------------------------------------------
\* Properties of _draw_wrapped_text
\* ------------------------------------------------------------------------

WrapReturned == wpc = "done"

\* C11: what _draw_wrapped_text draws stays inside the cell: every line it
\* draws is at most w wide at the size it set, and the lines drawn, each one
\* line height high, are together at most h high.
C11_NeverOverflows ==
    WrapReturned =>
        /\ \A k \in DOMAIN cellDrawn : StringWidth(cellDrawn[k], cellFont) <= cellW
        /\ Len(cellDrawn) * LineHeight(cellFont) <= cellH

\* The sizes of the sequence font_size, font_size - step, ... that are not
\* below the floor.
SizesAllowed ==
    { sz \in min_font_size..font_size : (font_size - sz) % ShrinkStep = 0 }

\* The sizes of that sequence at which the words, wrapped at that size, make
\* a block no higher than the cell.
SizesFitting ==
    { sz \in SizesAllowed : BlockFits(WrapLines(cellWords, sz, cellW), sz, cellH) }

\* C15: the size the text is drawn with lies between the floor and the
\* starting size; it is the largest size of the sequence at which the wrapped
\* block is no higher than the cell, or the floor when no size fits; and the
\* size goes down, one step at a time, only while the block is too high.
C15_LargestFittingSize ==
    /\ [](WrapReturned /\ cellWords # <<>> =>
            /\ cellFont \in SizesAllowed
            /\ IF SizesFitting # {}
               THEN /\ cellFont \in SizesFitting
                    /\ \A sz \in SizesFitting : sz <= cellFont
               ELSE cellFont = min_font_size)
    /\ [][cellSize' # cellSize /\ cellTried # <<>> =>
            /\ ~BlockFits(cellLines, cellSize, cellH)
            /\ cellSize' = cellSize - ShrinkStep]_vars

\* C15 witness: the text was drawn at a size strictly between the floor and
\* the starting size, after the block was too high at every larger size.
C15_Witness ==
    /\ WrapReturned
    /\ cellFont > min_font_size
    /\ cellFont < font_size
    /\ Len(cellTried) = font_size - cellFont + 1
    /\ Len(cellDrawn) >= 2

\* str is the beginning of whole, and shorter.
CutShort(str, whole) ==
    /\ Len(str) < Len(whole)
    /\ SubSeq(whole, 1, Len(str)) = str

\* The lines lns[k..] show the words from number i on, in order, and every
\* loss is marked: a line without the ellipsis is a run of whole words; a
\* line with it ends with it, and before it stands the beginning of one word,
\* the rest of that word lost, or on the last line the beginning of all the
\* words still to come, the rest of them lost.  After a last line without
\* the ellipsis no word is left.
RECURSIVE Marked(_, _, _)
Marked(lns, k, i) ==
    IF k > Len(lns) THEN i > Len(cellWords)
    ELSE LET ln == lns[k]
         IN  IF Ellipsis \notin Range(ln)
             THEN \E j \in i..Len(cellWords) :
                     /\ ln = Join(SubSeq(cellWords, i, j), <<" ">>)
                     /\ Marked(lns, k + 1, j + 1)
             ELSE /\ ln[Len(ln)] = Ellipsis
                  /\ i <= Len(cellWords)
                  /\ LET body == SubSeq(ln, 1, Len(ln) - 1)
                     IN  \/ /\ CutShort(body, cellWords[i])
                            /\ Marked(lns, k + 1, i + 1)
                         \/ /\ k = Len(lns)
                            /\ CutShort(body, Join(SubSeq(cellWords, i, Len(cellWords)),
                                                   <<" ">>))

\* C16: whatever _draw_wrapped_text leaves out of the words is marked with an
\* ellipsis, and no ellipsis is added when nothing is left out.  A block that
\* fits the cell height at the final size is drawn as wrapped; of a block
\* that does not, the lines drawn are the first lines of it, as many whole
\* lines as fit the cell height, and the last of them is the beginning of the
\* wrapped line followed by the ellipsis and is at most w wide.
C16_LossIsMarked ==
    WrapReturned /\ cellWords # <<>> =>
        /\ Marked(cellDrawn, 1, 1)
        /\ IF Len(cellWrapped) * LineHeight(cellFont) <= cellH
           THEN cellDrawn = cellWrapped
           ELSE LET m == Len(cellDrawn)
                IN  /\ m >= 1
                    /\ m < Len(cellWrapped)
                    /\ m * LineHeight(cellFont) <= cellH
                    /\ (m + 1) * LineHeight(cellFont) > cellH
                    /\ \A k \in 1..(m - 1) : cellDrawn[k] = cellWrapped[k]
                    /\ cellDrawn[m][Len(cellDrawn[m])] = Ellipsis
                    /\ StringWidth(cellDrawn[m], cellFont) <= cellW
                    /\ \E n \in 0..Len(cellWrapped[m]) :
                          cellDrawn[m] = Append(SubSeq(cellWrapped[m], 1, n), Ellipsis)

\* C16 witness: one word was cut because it alone is wider than the cell,
\* and lines were cut because the block is too high at the floor size.
C16_Witness ==
    /\ WrapReturned
    /\ cellFont = min_font_size
    /\ Len(cellDrawn) >= 2
    /\ Len(cellDrawn) < Len(cellWrapped)
    /\ \E i \in DOMAIN cellWords :
          /\ StringWidth(cellWords[i], cellFont) > cellW
          /\ CutShort(SubSeq(cellDrawn[1], 1, Len(cellDrawn[1]) - 1), cellWords[i])
    /\ cellDrawn[Len(cellDrawn)][Len(cellDrawn[Len(cellDrawn)])] = Ellipsis

SpecGen == GenInit /\ [][GenNext]_vars

\* generate_cards is straight-line sequential code: every step that can be
\* taken is taken.
FairSpecGen == SpecGen /\ WF_vars(GenNext)

\* parse_song_list_text is sequential too.
SpecParse == ParseInit /\ [][ParseNext]_vars

\* render_cards_pdf is sequential too.
SpecPdf == PdfInit /\ [][PdfNext]_vars

\* _draw_wrapped_text is sequential too.
SpecWrap == WrapInit /\ [][WrapNext]_vars

====
